---- MODULE Spec2Model ----
(***************************************************************************)
(* Model of src/stats/event-exporter-transport-file.c: the "file" and      *)
(* "unix" event exporter transports.  Each exporter lazily creates one     *)
(* struct file_event_exporter (a node), links it into the global list      *)
(* exporter_file_list_head, opens it on demand and writes one record per   *)
(* send.  reopen closes the plain files, deinit destroys every node.       *)
(*                                                                         *)
(* Library calls (open, connect, o_stream_sendv, o_stream_finish) are the  *)
(* environment: their result is an input of the action that makes them.    *)
(***************************************************************************)
EXTENDS Integers, Sequences, FiniteSets, TLC

\* ------------------------------------------------------------------ bounds
\* Total number of send calls explored.
MaxSends == 2
\* ioloop_time at start: seconds since the epoch, far more than the delay.
StartTime == 100
\* How far ioloop_time may advance.
MaxElapsed == 61
\* The clock advances in steps around the delay: the gaps are 0, 59, 60, 61.
TickSteps == {59, 60, 61}

\* -------------------------------------------------------- program constants
EXPORTER_LAST_ERROR_DELAY == 60
\* A NULL pointer (struct pointers are node indices 1, 2, ...).
NULL == 0

\* The exporters the stats process is configured with.
Exporters == {"e1", "e2"}
\* Values of exporter->transport_args: a path, optionally followed by
\* further space-separated arguments.
TransportArgs == {<<"a", " ", "x">>, <<"b">>}
\* The file names those arguments name.
FileNames == {<<"a">>, <<"b">>}
\* Event payloads (buffer_t contents handed to send).
Buffers == {<<>>, <<"h", "i">>}
\* The payload used where the payload does not matter.
OneBuffer == {<<"h", "i">>}

VARIABLES
    transport,          \* exporter -> "file" | "unix": its transport vtable
    transport_args,     \* exporter -> exporter->transport_args
    transport_context,  \* exporter -> exporter->transport_context (node or NULL)
    nodes,              \* the heap: every struct file_event_exporter allocated
    exporter_file_list_head,
    ioloop_time,
    open_fds,           \* descriptors currently open in the process
    nfd,                \* number of descriptors opened so far
    sink,               \* file name -> bytes the file / socket peer received
    sent,               \* history: file name -> sends made, in call order
    error_log,          \* history: node -> failures, in order
    pre_reopen,         \* history: node -> descriptor held at the last reopen
    fault,              \* "none", or the memory fault that stopped the process
    last_op             \* history: the call that produced this state

vars == <<transport, transport_args, transport_context, nodes,
          exporter_file_list_head, ioloop_time, open_fds, nfd, sink, sent,
          error_log, pre_reopen, fault, last_op>>

\* ------------------------------------------------------------------ helpers
Min(S) == CHOOSE x \in S : \A y \in S : x <= y

\* t_strcut(): the part of str before the first occurrence of cutchar.
t_strcut(str, cutchar) ==
    LET at == {i \in 1..Len(str) : str[i] = cutchar}
    IN  IF at = {} THEN str ELSE SubSeq(str, 1, Min(at) - 1)

\* The nodes linked from node n through ->next, in list order.
RECURSIVE ListFrom(_, _)
ListFrom(heap, n) ==
    IF n = NULL THEN <<>> ELSE <<n>> \o ListFrom(heap, heap[n].next)

Registry == ListFrom(nodes, exporter_file_list_head)
Registered == {Registry[i] : i \in 1..Len(Registry)}

NoOp == [op |-> "start", e |-> "-", result |-> "-"]

\* The machine state the C functions below read and write.
Machine == [nodes |-> nodes, open_fds |-> open_fds, nfd |-> nfd,
            sink |-> sink, error_log |-> error_log, fault |-> fault,
            ret |-> TRUE, diag |-> FALSE]

\* Mutant of Report: last_error is one variable shared by all nodes.
Report_Global(m, n, func) ==
    [m EXCEPT !.nodes = [k \in DOMAIN m.nodes |->
                            [m.nodes[k] EXCEPT !.last_error = ioloop_time]],
              !.error_log[n] = Append(@, [time |-> ioloop_time, func |-> func,
                                          reported |-> TRUE]),
              !.diag = TRUE]

\* Mutant of Report: the message is logged but last_error is not stamped.
Report_NoStamp(m, n, func) ==
    [m EXCEPT !.error_log[n] = Append(@, [time |-> ioloop_time, func |-> func,
                                          reported |-> TRUE]),
              !.diag = TRUE]

\* i_error() for node n, with node->last_error = ioloop_time.
Report(m, n, func) ==
    [m EXCEPT !.nodes[n].last_error = ioloop_time,
              !.error_log[n] = Append(@, [time |-> ioloop_time, func |-> func,
                                          reported |-> TRUE]),
              !.diag = TRUE]

\* Mutant of Suppress: a suppressed failure stamps last_error too.
Suppress_Stamps(m, n, func) ==
    [m EXCEPT !.nodes[n].last_error = ioloop_time,
              !.error_log[n] = Append(@, [time |-> ioloop_time, func |-> func,
                                          reported |-> FALSE])]

\* A failure whose message the throttle suppresses.
Suppress(m, n, func) ==
    [m EXCEPT !.error_log[n] = Append(@, [time |-> ioloop_time, func |-> func,
                                          reported |-> FALSE])]

\* Mutant of ThrottleExpired: the comparison is >= instead of >.
ThrottleExpired_AtDelay(node) ==
    ioloop_time - node.last_error >= EXPORTER_LAST_ERROR_DELAY

\* ioloop_time - node->last_error > EXPORTER_LAST_ERROR_DELAY
ThrottleExpired(node) ==
    ioloop_time - node.last_error > EXPORTER_LAST_ERROR_DELAY

\* Mutant of ReleaseHandle: the stream is destroyed, the descriptor is kept.
ReleaseHandle_KeepsFd(m, n) ==
    [m EXCEPT !.nodes[n].output = NULL,
              !.nodes[n].closed = FALSE]

\* Mutant of ReleaseHandle: the descriptor is closed, the stream is kept.
ReleaseHandle_KeepsStream(m, n) ==
    [m EXCEPT !.nodes[n].fd = -1,
              !.open_fds = @ \ {m.nodes[n].fd}]

\* o_stream_destroy(&node->output); i_close_fd(&node->fd);
\* Both accept an already cleared field.
ReleaseHandle(m, n) ==
    [m EXCEPT !.nodes[n].output = NULL,
              !.nodes[n].closed = FALSE,
              !.nodes[n].fd = -1,
              !.open_fds = @ \ {m.nodes[n].fd}]

\* exporter_file_close(): o_stream_finish() dereferences node->output, so a
\* node without a stream faults.  finish_ok is o_stream_finish() >= 0.
exporter_file_close(m, n, finish_ok) ==
    IF m.nodes[n].output = NULL
    THEN [m EXCEPT !.fault = "null_deref"]
    ELSE ReleaseHandle(IF finish_ok THEN m ELSE Report(m, n, "finish"), n)

\* exporter_file_destroy(): close, then free the name and the node.
exporter_file_destroy(m, n, finish_ok) ==
    LET c == exporter_file_close(m, n, finish_ok)
    IN  IF c.fault # "none" THEN c
        ELSE [c EXCEPT !.nodes[n].freed = TRUE]

\* The loop of event_exporter_file_deinit(), from node n on.
RECURSIVE DeinitFrom(_, _, _)
DeinitFrom(m, n, finish_ok) ==
    IF n = NULL \/ m.fault # "none" THEN m
    ELSE DeinitFrom(exporter_file_destroy(m, n, finish_ok[n]),
                    m.nodes[n].next, finish_ok)

\* Mutant of ReopenNode: files are destroyed, not just closed.
ReopenNode_Destroys(m, n, finish_ok) ==
    IF ~m.nodes[n].unix_socket
    THEN exporter_file_destroy(m, n, finish_ok)
    ELSE m

\* Mutant of ReopenNode: the test is inverted, files are skipped.
ReopenNode_SkipsFiles(m, n, finish_ok) ==
    IF m.nodes[n].unix_socket
    THEN exporter_file_close(m, n, finish_ok)
    ELSE m

\* Mutant of ReopenNode: the test is missing, sockets are closed too.
ReopenNode_ClosesAll(m, n, finish_ok) ==
    exporter_file_close(m, n, finish_ok)

\* The body of the loop of event_exporter_file_reopen():
\* close all files, but not unix sockets.
ReopenNode(m, n, finish_ok) ==
    IF ~m.nodes[n].unix_socket
    THEN exporter_file_close(m, n, finish_ok)
    ELSE m

\* The loop of event_exporter_file_reopen(), from node n on.
RECURSIVE ReopenFrom(_, _, _)
ReopenFrom(m, n, finish_ok) ==
    IF n = NULL \/ m.fault # "none" THEN m
    ELSE ReopenFrom(ReopenNode(m, n, finish_ok[n]),
                    m.nodes[n].next, finish_ok)

\* exporter_file_init(): a new node at the head of the list.
NewNode(e, unix_socket) ==
    [next |-> exporter_file_list_head,
     fname |-> t_strcut(transport_args[e], " "),
     output |-> NULL, closed |-> FALSE, fd |-> -1, last_error |-> 0,
     unix_socket |-> unix_socket, freed |-> FALSE]

\* exporter_file_open_error(): always reports and stamps last_error.
exporter_file_open_error(m, n, func) == Report(m, n, func)

\* A successful open()/connect(): a new descriptor and a stream on it.
Acquire(m, n) ==
    [m EXCEPT !.nfd = @ + 1,
              !.open_fds = @ \cup {m.nfd + 1},
              !.nodes[n].fd = m.nfd + 1,
              !.nodes[n].output = m.nfd + 1,
              !.nodes[n].closed = FALSE,
              !.ret = TRUE]

\* exporter_file_open_unix(); connected is net_connect_unix_with_retries() != -1.
exporter_file_open_unix(m, n, connected) ==
    IF ~connected
    THEN [(IF ThrottleExpired(m.nodes[n])
           THEN exporter_file_open_error(m, n, "connect")
           ELSE Suppress(m, n, "connect")) EXCEPT !.ret = FALSE]
    ELSE Acquire(m, n)

\* exporter_file_open_plain(); opened is open() != -1.
exporter_file_open_plain(m, n, opened) ==
    IF ~opened
    THEN [(IF ThrottleExpired(m.nodes[n])
           THEN exporter_file_open_error(m, n, "open")
           ELSE Suppress(m, n, "open")) EXCEPT !.ret = FALSE]
    ELSE Acquire(m, n)

\* The test that opens exporter_file_open(): the stream is there and open.
StreamUsable(node) == node.output # NULL /\ ~node.closed

\* Mutant of exporter_file_open: no early return for an open stream.
exporter_file_open_Always(m, n, open_ok) ==
    LET r == ReleaseHandle(m, n)
    IN  IF r.nodes[n].unix_socket
        THEN exporter_file_open_unix(r, n, open_ok)
        ELSE exporter_file_open_plain(r, n, open_ok)

\* Mutant of exporter_file_open: inside the throttle window no open is tried.
exporter_file_open_Throttled(m, n, open_ok) ==
    IF StreamUsable(m.nodes[n]) THEN [m EXCEPT !.ret = TRUE]
    ELSE LET r == ReleaseHandle(m, n)
         IN  IF ~ThrottleExpired(r.nodes[n]) THEN [r EXCEPT !.ret = FALSE]
             ELSE IF r.nodes[n].unix_socket
             THEN exporter_file_open_unix(r, n, open_ok)
             ELSE exporter_file_open_plain(r, n, open_ok)

\* exporter_file_open()
exporter_file_open(m, n, open_ok) ==
    IF StreamUsable(m.nodes[n]) THEN [m EXCEPT !.ret = TRUE]
    ELSE LET r == ReleaseHandle(m, n)
         IN  IF r.nodes[n].unix_socket
             THEN exporter_file_open_unix(r, n, open_ok)
             ELSE exporter_file_open_plain(r, n, open_ok)

\* Mutant of WriteVec: the newline element is missing.
WriteVec_NoNewline(buf) == <<buf>>

\* The iovec of event_exporter_file_write(): the buffer, then "\n".
WriteVec(buf) == <<buf, <<"\n">>>>

\* o_stream_sendv() accepting the whole vector: the parts, in order.
RECURSIVE Concat(_)
Concat(vec) == IF vec = <<>> THEN <<>> ELSE Head(vec) \o Concat(Tail(vec))

\* Mutant of WriteFailed: o_stream_close() sits inside the throttle test.
WriteFailed_ClosesWhenReported(m, n) ==
    IF ThrottleExpired(m.nodes[n])
    THEN [Report(m, n, "write") EXCEPT !.nodes[n].closed = TRUE, !.ret = FALSE]
    ELSE [Suppress(m, n, "write") EXCEPT !.ret = FALSE]

\* Mutant of WriteFailed: the write path reports without the throttle test.
WriteFailed_NoThrottle(m, n) ==
    [Report(m, n, "write") EXCEPT !.nodes[n].closed = TRUE, !.ret = FALSE]

\* What a failed o_stream_sendv() does to the node in event_exporter_file_write().
WriteFailed(m, n) ==
    LET r == IF ThrottleExpired(m.nodes[n])
             THEN Report(m, n, "write") ELSE Suppress(m, n, "write")
    IN  [r EXCEPT !.nodes[n].closed = TRUE, !.ret = FALSE]

\* event_exporter_file_write(); write_ok is o_stream_sendv() >= 0.
event_exporter_file_write(m, n, buf, write_ok) ==
    IF write_ok
    THEN [m EXCEPT !.sink[m.nodes[n].fname] = @ \o Concat(WriteVec(buf)),
                   !.ret = TRUE]
    ELSE WriteFailed(m, n)

\* Mutant of AssignContext: the node is not stored in the exporter.
AssignContext_Forgotten(ctx, e, n) == ctx

\* What exporter_file_init() does with the exporter's context pointer.
AssignContext(ctx, e, n) == [ctx EXCEPT ![e] = n]

\* ------------------------------------------------------------------- state
Init ==
    /\ transport \in [Exporters -> {"file", "unix"}]
    /\ transport_args \in [Exporters -> TransportArgs]
    /\ transport["e1"] = "file"
    /\ transport_args["e1"] = <<"a", " ", "x">>
    /\ transport_context = [e \in Exporters |-> NULL]
    /\ nodes = <<>>
    /\ exporter_file_list_head = NULL
    /\ ioloop_time = StartTime
    /\ open_fds = {}
    /\ nfd = 0
    /\ sink = [f \in FileNames |-> <<>>]
    /\ sent = [f \in FileNames |-> <<>>]
    /\ error_log = <<>>
    /\ pre_reopen = <<>>
    /\ fault = "none"
    /\ last_op = NoOp

Running == fault = "none"

SendCount == Len(sent[<<"a">>]) + Len(sent[<<"b">>])

\* Mutant of SendBody: the return after a failed open is missing.
SendBody_NoEarlyReturn(m, n, buf, open_ok, write_ok) ==
    LET o == exporter_file_open(m, n, open_ok)
        w == event_exporter_file_write(o, n, buf, write_ok)
    IN  [w EXCEPT !.ret = IF ~o.ret THEN "open_failed"
                          ELSE IF w.ret THEN "ok" ELSE "write_failed"]

\* if (!exporter_file_open(node)) return; event_exporter_file_write(node, buf);
\* ret tells how the call ended.
SendBody(m, n, buf, open_ok, write_ok) ==
    LET o == exporter_file_open(m, n, open_ok)
    IN  IF ~o.ret THEN [o EXCEPT !.ret = "open_failed"]
        ELSE LET w == event_exporter_file_write(o, n, buf, write_ok)
             IN  [w EXCEPT !.ret = IF w.ret THEN "ok" ELSE "write_failed"]

\* The body shared by event_exporter_file_send() and event_exporter_unix_send().
\* A context pointing at a freed node is a dangling pointer: the process either
\* faults on it or goes on with what the freed memory still holds.
Send(e, unix_socket, buf, open_ok, write_ok, survive) ==
    LET ctx     == transport_context[e]
        create  == ctx = NULL
        n       == IF create THEN Len(nodes) + 1 ELSE ctx
        m0      == IF create
                   THEN [Machine EXCEPT
                            !.nodes = Append(@, NewNode(e, unix_socket)),
                            !.error_log = Append(@, <<>>)]
                   ELSE Machine
        dangling == ~create /\ nodes[n].freed
        fname   == m0.nodes[n].fname
    IN  /\ Running
        /\ SendCount < MaxSends
        /\ IF dangling /\ ~survive
           THEN /\ fault' = "use_after_free"
                /\ last_op' = [op |-> "send", e |-> e, result |-> "crash"]
                /\ UNCHANGED <<transport_context, nodes,
                               exporter_file_list_head, open_fds, nfd, sink,
                               sent, error_log, pre_reopen>>
           ELSE \E m2 \in {SendBody(m0, n, buf, open_ok, write_ok)} :
                /\ nodes' = m2.nodes
                /\ open_fds' = m2.open_fds
                /\ nfd' = m2.nfd
                /\ sink' = m2.sink
                /\ error_log' = m2.error_log
                /\ fault' = m2.fault
                /\ exporter_file_list_head' =
                       IF create THEN n ELSE exporter_file_list_head
                /\ transport_context' =
                       IF create THEN AssignContext(transport_context, e, n)
                       ELSE transport_context
                /\ pre_reopen' = IF create THEN Append(pre_reopen, NULL)
                                 ELSE pre_reopen
                /\ sent' = [sent EXCEPT ![fname] =
                               Append(@, [buf |-> buf, ok |-> m2.ret = "ok"])]
                /\ last_op' = [op |-> "send", e |-> e, result |-> m2.ret]
    /\ UNCHANGED <<transport, transport_args, ioloop_time>>

\* event_exporter_file_send(): the "file" transport's send.
event_exporter_file_send(e, bufs) ==
    /\ transport[e] = "file"
    /\ \E buf \in bufs, open_ok, write_ok, survive \in BOOLEAN :
          Send(e, FALSE, buf, open_ok, write_ok, survive)

\* event_exporter_unix_send(): the "unix" transport's send.
event_exporter_unix_send(e, bufs) ==
    /\ transport[e] = "unix"
    /\ \E buf \in bufs, open_ok, write_ok, survive \in BOOLEAN :
          Send(e, TRUE, buf, open_ok, write_ok, survive)

\* event_exporter_file_reopen()
event_exporter_file_reopen ==
    /\ Running
    /\ \E finish_ok \in [DOMAIN nodes -> BOOLEAN] :
          \E m \in {ReopenFrom(Machine, exporter_file_list_head, finish_ok)} :
              /\ nodes' = m.nodes
              /\ open_fds' = m.open_fds
              /\ error_log' = m.error_log
              /\ fault' = m.fault
              /\ pre_reopen' =
                    [n \in DOMAIN nodes |->
                        IF /\ m.fault = "none"
                           /\ n \in Registered
                           /\ ~nodes[n].unix_socket
                           /\ nodes[n].fd # -1
                        THEN nodes[n].fd ELSE pre_reopen[n]]
              /\ last_op' = [op |-> "reopen", e |-> "-",
                              result |-> IF m.fault = "none"
                                         THEN "ok" ELSE "crash"]
    /\ UNCHANGED <<transport, transport_args, transport_context,
                   exporter_file_list_head, ioloop_time, nfd, sink, sent>>

\* event_exporter_file_deinit()
event_exporter_file_deinit ==
    /\ Running
    /\ \E finish_ok \in [DOMAIN nodes -> BOOLEAN] :
          \E m \in {DeinitFrom(Machine, exporter_file_list_head, finish_ok)} :
              /\ nodes' = m.nodes
              /\ open_fds' = m.open_fds
              /\ error_log' = m.error_log
              /\ fault' = m.fault
              /\ last_op' = [op |-> "deinit", e |-> "-",
                              result |-> IF m.fault = "none"
                                         THEN "ok" ELSE "crash"]
    /\ exporter_file_list_head' = NULL
    /\ UNCHANGED <<transport, transport_args, transport_context,
                   ioloop_time, nfd, sink, sent, pre_reopen>>

\* The ioloop advancing ioloop_time between calls.
Tick ==
    /\ Running
    /\ \E d \in TickSteps :
          /\ ioloop_time + d <= StartTime + MaxElapsed
          /\ ioloop_time' = ioloop_time + d
    /\ last_op' = [op |-> "tick", e |-> "-", result |-> "ok"]
    /\ UNCHANGED <<transport, transport_args, transport_context, nodes,
                   exporter_file_list_head, open_fds, nfd, sink, sent,
                   error_log, pre_reopen, fault>>

\* Every call, with one payload and a running clock.
Next ==
    \/ \E e \in Exporters : event_exporter_file_send(e, OneBuffer)
    \/ \E e \in Exporters : event_exporter_unix_send(e, OneBuffer)
    \/ event_exporter_file_reopen
    \/ event_exporter_file_deinit
    \/ Tick

Spec == Init /\ [][Next]_vars

\* Every call, with every payload and the clock standing still.
NextWrite ==
    \/ \E e \in Exporters : event_exporter_file_send(e, Buffers)
    \/ \E e \in Exporters : event_exporter_unix_send(e, Buffers)
    \/ event_exporter_file_reopen
    \/ event_exporter_file_deinit

SpecWrite == Init /\ [][NextWrite]_vars

\* ================================================================== claims
\* The node the last call worked on (the exporter's context after the call).
LastNode == transport_context[last_op.e]
LastSend == last_op.op = "send"
Dormant(node) == node.output = NULL /\ node.fd = -1

\* C1: after close_all the registry is empty, and every send works on a node
\* that is registered and was never freed: a send that follows close_all
\* creates a new node instead of touching the one close_all destroyed.
C1_TeardownThenFreshNode ==
    /\ (last_op.op = "deinit" /\ last_op.result = "ok")
          => exporter_file_list_head = NULL
    /\ LastSend => (LastNode \in Registered /\ ~nodes[LastNode].freed)

\* C2 as stated: no two registered nodes have the same destination address.
C2_OneNodePerAddress ==
    \A i, j \in Registered : i # j => nodes[i].fname # nodes[j].fname

\* C2 as amended: nodes are kept per exporter, not per address.  Every node
\* ever allocated is the context of exactly one exporter (so a send through an
\* exporter that has a node never allocates or registers a second one), and
\* no node is linked into the registry twice.
C2_OneNodePerExporter ==
    /\ \A n \in DOMAIN nodes :
          Cardinality({e \in Exporters : transport_context[e] = n}) = 1
    /\ \A i, j \in 1..Len(Registry) : i # j => Registry[i] # Registry[j]

\* Two exporters have sent to one address and each has its own node.
C2_Witness ==
    /\ LastSend /\ last_op.result = "ok"
    /\ \E i, j \in Registered : i # j /\ nodes[i].fname = nodes[j].fname

\* C3: when reopen_all returns, every registered file-kind node has neither
\* stream nor descriptor; the descriptor a file-kind node held when
\* reopen_all was called is closed and is never the node's descriptor or
\* stream again, so the next successful send writes through a new one.
C3_ReopenGivesFreshHandle ==
    /\ (last_op.op = "reopen" /\ last_op.result = "ok") =>
          \A n \in Registered : ~nodes[n].unix_socket => Dormant(nodes[n])
    /\ \A n \in DOMAIN nodes :
          pre_reopen[n] # NULL =>
             /\ pre_reopen[n] \notin open_fds
             /\ nodes[n].fd # pre_reopen[n]
             /\ nodes[n].output # pre_reopen[n]
             /\ StreamUsable(nodes[n]) => nodes[n].fd \in open_fds

\* A file was open, reopen_all closed it, and a send has opened it again.
C3_Witness ==
    /\ LastSend /\ last_op.result = "ok"
    /\ pre_reopen[LastNode] # NULL
    /\ StreamUsable(nodes[LastNode])
    /\ nodes[LastNode].fd > pre_reopen[LastNode]

\* C4: reopen_all changes no field of a socket-kind node and logs nothing
\* for it.
C4_ReopenLeavesSockets ==
    [][last_op'.op = "reopen" =>
          \A n \in Registered :
             nodes[n].unix_socket =>
                /\ nodes'[n] = nodes[n]
                /\ error_log'[n] = error_log[n]
                /\ (nodes[n].fd # -1 => nodes[n].fd \in open_fds')]_vars

\* reopen_all has closed a file while an open socket was registered.
C4_Witness ==
    /\ last_op.op = "reopen" /\ last_op.result = "ok"
    /\ \E n \in Registered : nodes[n].unix_socket /\ StreamUsable(nodes[n])
    /\ \E n \in Registered : ~nodes[n].unix_socket /\ pre_reopen[n] # NULL

\* C5: a send on a node whose stream is open does not call the opener and
\* keeps the node's stream and descriptor: no descriptor is opened or closed.
C5_OpenNodeKeepsHandle ==
    [][\A e \in Exporters :
          (/\ last_op'.op = "send" /\ last_op'.e = e
           /\ transport_context[e] # NULL
           /\ StreamUsable(nodes[transport_context[e]]))
          => /\ nodes'[transport_context[e]].fd = nodes[transport_context[e]].fd
             /\ nodes'[transport_context[e]].output
                   = nodes[transport_context[e]].output
             /\ nfd' = nfd
             /\ open_fds' = open_fds
             /\ last_op'.result # "open_failed"]_vars

\* Two sends in a row succeeded through the one descriptor ever opened.
C5_Witness ==
    /\ LastSend /\ last_op.result = "ok"
    /\ nfd = 1
    /\ \E f \in FileNames :
          Len(sent[f]) = 2 /\ sent[f][1].ok /\ sent[f][2].ok

\* The failures of node n that came from the opener or the write path.
SendFailure(entry) == entry.func \in {"open", "connect", "write"}
Reported(entries) == Cardinality({i \in DOMAIN entries : entries[i].reported})

C7_OpenOrAbsent ==
    \A n \in DOMAIN nodes :
       \/ Dormant(nodes[n])
       \/ StreamUsable(nodes[n]) /\ nodes[n].fd \in open_fds

\* C7 as amended: a node has no stream and no descriptor (in particular after
\* an open failure and, for a file-kind node, after reopen_all), or a stream
\* open on a live descriptor, or, after a write failure, a closed stream that
\* it still holds together with its still open descriptor.
C7_OpenAbsentOrClosed ==
    /\ \A n \in DOMAIN nodes :
          \/ Dormant(nodes[n])
          \/ StreamUsable(nodes[n]) /\ nodes[n].fd \in open_fds
          \/ /\ nodes[n].output # NULL /\ nodes[n].closed
             /\ nodes[n].fd \in open_fds
             /\ \E i \in DOMAIN error_log[n] : error_log[n][i].func = "write"
    /\ (LastSend /\ last_op.result = "open_failed") => Dormant(nodes[LastNode])
    /\ (LastSend /\ last_op.result = "write_failed") =>
          (nodes[LastNode].output # NULL /\ nodes[LastNode].closed)
    /\ (last_op.op = "reopen" /\ last_op.result = "ok") =>
          \A n \in Registered : ~nodes[n].unix_socket => Dormant(nodes[n])

\* A write has just failed: the node holds a closed stream and a descriptor.
C7_Witness ==
    /\ LastSend /\ last_op.result = "write_failed"
    /\ nodes[LastNode].closed
    /\ nodes[LastNode].fd \in open_fds

\* The payload and outcome of the send that was just made to file f.
LastSent(f) == sent[f][Len(sent[f])]

\* C8: a send that succeeds appends to its sink the payload bytes and then
\* one newline, and nothing else changes a sink: every other call, and a send
\* that fails, leaves all sinks as they were.
C8_Framing ==
    [][IF last_op'.op = "send" /\ last_op'.result = "ok"
       THEN \E f \in FileNames :
               /\ Len(sent'[f]) = Len(sent[f]) + 1
               /\ sink'[f] = sink[f] \o LastSent(f)'.buf \o <<"\n">>
               /\ Len(sink'[f]) = Len(sink[f]) + Len(LastSent(f)'.buf) + 1
               /\ \A g \in FileNames \ {f} : sink'[g] = sink[g]
       ELSE sink' = sink]_vars

\* Both a file and a socket have taken a record, one of them empty.
C8_Witness ==
    /\ LastSend /\ last_op.result = "ok"
    /\ \E n, k \in Registered :
          /\ nodes[n].unix_socket /\ ~nodes[k].unix_socket
          /\ sink[nodes[n].fname] = <<"\n">>
          /\ sink[nodes[k].fname] = <<"h", "i", "\n">>

\* The records in a byte stream: the runs of bytes each newline ends.  Bytes
\* after the last newline are an unfinished record.
RECURSIVE Records(_)
Records(bytes) ==
    LET ends == {i \in 1..Len(bytes) : bytes[i] = "\n"}
    IN  IF bytes = <<>> THEN <<>>
        ELSE IF ends = {} THEN <<[unfinished |-> bytes]>>
        ELSE <<SubSeq(bytes, 1, Min(ends) - 1)>>
             \o Records(SubSeq(bytes, Min(ends) + 1, Len(bytes)))

\* The payloads of the sends to f that succeeded, in call order.
RECURSIVE Accepted(_)
Accepted(calls) ==
    IF calls = <<>> THEN <<>>
    ELSE (IF Head(calls).ok THEN <<Head(calls).buf>> ELSE <<>>)
         \o Accepted(Tail(calls))

\* C9: the records a sink holds are the payloads of the successful sends to
\* it, in the order of the calls: nothing is reordered, a payload whose send
\* failed never shows up, and none shows up twice.
C9_SendOrder ==
    \A f \in FileNames : Records(sink[f]) = Accepted(sent[f])

\* A failed send followed by a successful one with another payload: only the
\* second is in the sink.
C9_Witness ==
    \E f \in FileNames :
       /\ Len(sent[f]) = 2
       /\ ~sent[f][1].ok /\ sent[f][2].ok
       /\ sent[f][1].buf # sent[f][2].buf
       /\ Records(sink[f]) = <<sent[f][2].buf>>

\* The node a send by exporter e works on, as it is when the call starts.
NodeBefore(e) ==
    IF transport_context[e] = NULL
    THEN NewNode(e, transport[e] = "unix")
    ELSE nodes[transport_context[e]]

\* C10: a write failure leaves the node with its stream closed and the sink
\* without the payload, whether the message is reported or suppressed: but
\* for last_error the node is what the call's start state alone determines.
C10_WriteFailureCloses ==
    [][\A e \in Exporters :
          (/\ last_op'.op = "send" /\ last_op'.e = e
           /\ last_op'.result = "write_failed")
          => LET before == NodeBefore(e)
                 after  == nodes'[transport_context'[e]]
                 expect == IF StreamUsable(before)
                           THEN [before EXCEPT !.closed = TRUE]
                           ELSE [before EXCEPT !.closed = TRUE,
                                               !.output = nfd + 1,
                                               !.fd = nfd + 1]
             IN  /\ after.closed /\ after.output # NULL
                 /\ ~StreamUsable(after)
                 /\ [after EXCEPT !.last_error = 0]
                       = [expect EXCEPT !.last_error = 0]
                 /\ after.last_error \in {before.last_error, ioloop_time}
                 /\ sink' = sink]_vars

\* A write failure whose message the throttle suppressed.
C10_Witness ==
    /\ LastSend /\ last_op.result = "write_failed"
    /\ LET log == error_log[LastNode]
       IN  /\ log # <<>>
           /\ log[Len(log)].func = "write"
           /\ ~log[Len(log)].reported
    /\ nodes[LastNode].closed

\* The diagnostics (reported failures) of node n are the reported entries of
\* error_log[n]; entry j follows entry i when i < j.

\* C11 as stated: any two diagnostics of one node, whichever path made them,
\* are more than 60 seconds apart.
C11_AllDiagnosticsSpaced ==
    \A n \in DOMAIN error_log :
       \A i, j \in DOMAIN error_log[n] :
          (i < j /\ error_log[n][i].reported /\ error_log[n][j].reported)
          => error_log[n][j].time - error_log[n][i].time > 60

\* C11 as amended: a diagnostic of an open or write failure comes more than
\* 60 seconds after every earlier diagnostic of the node; the close step
\* reports a flush failure without that test.
C11_SendDiagnosticsSpaced ==
    \A n \in DOMAIN error_log :
       \A i, j \in DOMAIN error_log[n] :
          (/\ i < j
           /\ error_log[n][i].reported /\ error_log[n][j].reported
           /\ SendFailure(error_log[n][j]))
          => error_log[n][j].time - error_log[n][i].time > 60

\* A write failure and a flush failure reported within 60 seconds, then an
\* open or write failure reported more than 60 seconds after both.
C11_Witness ==
    \E n \in DOMAIN error_log :
       /\ Len(error_log[n]) = 3
       /\ Reported(error_log[n]) = 3
       /\ error_log[n][2].func = "finish"
       /\ error_log[n][2].time - error_log[n][1].time <= 60
       /\ SendFailure(error_log[n][3])

\* Open and connect failures are one kind of failure, write failures another.
FailureKind(entry) == IF entry.func = "write" THEN "write" ELSE "open"

\* C12 as stated: a failure is suppressed only on account of a reported
\* failure of its own kind in the 60 seconds before it.
C12_ThrottlePerKind ==
    \A n \in DOMAIN error_log :
       \A j \in DOMAIN error_log[n] :
          (SendFailure(error_log[n][j]) /\ ~error_log[n][j].reported)
          => \E i \in 1..(j - 1) :
                /\ error_log[n][i].reported
                /\ FailureKind(error_log[n][i]) = FailureKind(error_log[n][j])
                /\ error_log[n][j].time - error_log[n][i].time <= 60

\* C12 as amended: open and write failures share the node's one last_error.
\* An open or write failure is suppressed exactly when some diagnostic of the
\* node, of either kind or from the close step, was reported in the 60 seconds
\* before it.
C12_ThrottleShared ==
    \A n \in DOMAIN error_log :
       \A j \in DOMAIN error_log[n] :
          SendFailure(error_log[n][j])
          => (~error_log[n][j].reported
              <=> \E i \in 1..(j - 1) :
                     /\ error_log[n][i].reported
                     /\ error_log[n][j].time - error_log[n][i].time <= 60)

\* A reported open failure has suppressed a write failure on the same node.
C12_Witness ==
    \E n \in DOMAIN error_log :
       /\ Len(error_log[n]) = 2
       /\ error_log[n][1].func \in {"open", "connect"}
       /\ error_log[n][1].reported
       /\ error_log[n][2].func = "write"
       /\ ~error_log[n][2].reported

\* C13: reopen_all and close_all return without a fault whatever state the
\* registered nodes are in.
C13_CloseInAnyState ==
    last_op.op \in {"reopen", "deinit"} =>
       (last_op.result = "ok" /\ fault = "none")

\* The failures logged for the node of exporter e when a send by e starts.
LogBefore(e) ==
    IF transport_context[e] = NULL THEN <<>>
    ELSE error_log[transport_context[e]]

\* C14: a send on a node (not freed by close_all) whose stream is not open
\* makes exactly one open attempt with the opener of the node's kind,
\* whatever last_error is.  If the attempt fails, the failure is logged
\* (reported or suppressed), no descriptor is opened, the node has neither
\* stream nor descriptor and no sink changes.  If it succeeds, exactly one
\* descriptor is opened for the node and the payload is written in the same
\* send: it reaches the sink with the node open, or the write fails.
C14_EverySendRetries ==
    [][\A e \in Exporters :
          (/\ last_op'.op = "send" /\ last_op'.e = e
           /\ ~NodeBefore(e).freed
           /\ ~StreamUsable(NodeBefore(e)))
          => LET n      == transport_context'[e]
                 before == NodeBefore(e)
                 after  == nodes'[n]
                 log    == error_log'[n]
                 f      == before.fname
             IN  \/ /\ last_op'.result = "open_failed"
                    /\ nfd' = nfd
                    /\ Dormant(after)
                    /\ sink' = sink
                    /\ Len(log) = Len(LogBefore(e)) + 1
                    /\ log[Len(log)].func =
                          (IF before.unix_socket THEN "connect" ELSE "open")
                 \/ /\ last_op'.result = "ok"
                    /\ nfd' = nfd + 1
                    /\ after.fd = nfd + 1 /\ after.fd \in open_fds'
                    /\ StreamUsable(after)
                    /\ log = LogBefore(e)
                    /\ sink'[f] = sink[f] \o LastSent(f)'.buf \o <<"\n">>
                 \/ /\ last_op'.result = "write_failed"
                    /\ nfd' = nfd + 1
                    /\ after.fd = nfd + 1
                    /\ after.closed
                    /\ sink' = sink]_vars

\* A second open attempt was made, and failed, inside the throttle window.
C14_Witness ==
    /\ LastSend /\ last_op.result = "open_failed"
    /\ LET log == error_log[LastNode]
       IN  /\ Len(log) = 2
           /\ log[1].func \in {"open", "connect"} /\ log[1].reported
           /\ log[2].func \in {"open", "connect"} /\ ~log[2].reported
    /\ Dormant(nodes[LastNode])

\* C15: a node's last_error never decreases, and it changes only in a step
\* that reports a failure of that node, to the time of that report: a step
\* that logs a suppressed failure or no failure for the node leaves it alone.
C15_LastErrorFollowsReports ==
    [][\A n \in DOMAIN nodes' :
          LET old    == IF n \in DOMAIN nodes THEN nodes[n].last_error ELSE 0
              oldlog == IF n \in DOMAIN nodes THEN error_log[n] ELSE <<>>
              log    == error_log'[n]
              logged == Len(log) = Len(oldlog) + 1
          IN  /\ nodes'[n].last_error >= old
              /\ (logged /\ log[Len(log)].reported)
                    => (/\ nodes'[n].last_error = ioloop_time
                        /\ log[Len(log)].time = ioloop_time)
              /\ ~(logged /\ log[Len(log)].reported)
                    => nodes'[n].last_error = old]_vars

\* A failure was suppressed later than the report that last_error records.
C15_Witness ==
    \E n \in DOMAIN nodes :
       /\ Len(error_log[n]) = 2
       /\ error_log[n][1].reported /\ ~error_log[n][2].reported
       /\ error_log[n][2].time > error_log[n][1].time
       /\ nodes[n].last_error = error_log[n][1].time

\* C16: when close_all has been called, every node that was registered is
\* freed and holds no stream or descriptor, the registry is empty, and a
\* flush failure on one node stops none of this.
C16_TeardownDestroysAll ==
    last_op.op = "deinit" =>
       /\ exporter_file_list_head = NULL
       /\ \A n \in DOMAIN nodes : nodes[n].freed /\ Dormant(nodes[n])
       /\ open_fds = {}

\* C17: a step of send or reopen_all (and of the clock) unlinks and frees no
\* node and changes no node's address, kind or link: the registered nodes
\* stay registered, in the same order behind any new node, and an exporter
\* that has a node keeps that node, so the node reopen_all closed is the one
\* the next send opens.
C17_OnlyTeardownDestroys ==
    [][last_op'.op \in {"send", "reopen", "tick"} =>
          /\ \A n \in DOMAIN nodes :
                /\ nodes'[n].freed = nodes[n].freed
                /\ nodes'[n].fname = nodes[n].fname
                /\ nodes'[n].unix_socket = nodes[n].unix_socket
                /\ nodes'[n].next = nodes[n].next
          /\ Registered \subseteq Registered'
          /\ \A e \in Exporters :
                transport_context[e] # NULL =>
                   transport_context'[e] = transport_context[e]]_vars

\* The one node of the heap was closed by reopen_all and opened again by a
\* send, and is still the registered node of its exporter.
C17_Witness ==
    /\ LastSend /\ last_op.result = "ok"
    /\ Len(nodes) = 1
    /\ Registry = <<1>> /\ LastNode = 1
    /\ ~nodes[1].freed
    /\ pre_reopen[1] # NULL
    /\ StreamUsable(nodes[1])

\* C18: in every node the descriptor and the stream are both set or both
\* cleared: fd = -1 exactly when output = NULL.
C18_FdPairsWithStream ==
    \A n \in DOMAIN nodes : (nodes[n].fd = -1) <=> (nodes[n].output = NULL)

\* One node holds both (its stream closed by a write failure) while another,
\* closed by reopen_all, holds neither.
C18_Witness ==
    \E n, k \in DOMAIN nodes :
       /\ nodes[n].output # NULL /\ nodes[n].fd # -1 /\ nodes[n].closed
       /\ pre_reopen[k] # NULL /\ Dormant(nodes[k])

\* The descriptors the nodes hold.
HoldingNodes == {n \in DOMAIN nodes : nodes[n].fd # -1}
HeldFds == {nodes[n].fd : n \in HoldingNodes}

\* C19: while the process runs, every open descriptor is held by exactly one
\* node (a node closes the descriptor it holds before it takes another), no
\* more descriptors are open than nodes are registered, and none is open
\* when close_all has been called.
C19_NoDescriptorLeak ==
    Running =>
       /\ open_fds = HeldFds
       /\ Cardinality(HeldFds) = Cardinality(HoldingNodes)
       /\ Cardinality(open_fds) <= Cardinality(Registered)
       /\ last_op.op = "deinit" => open_fds = {}

\* C20: a send through exporter e changes no node but e's own, logs no
\* failure for another node and closes no descriptor of another node; the
\* list head changes only to a node the send has just created, linked in
\* front of the old head.
C20_SendTouchesOwnNode ==
    [][\A e \in Exporters :
          (last_op'.op = "send" /\ last_op'.e = e)
          => /\ \A n \in DOMAIN nodes :
                   n # transport_context'[e] =>
                      /\ nodes'[n] = nodes[n]
                      /\ error_log'[n] = error_log[n]
                      /\ nodes[n].fd # -1 => nodes[n].fd \in open_fds'
             /\ \/ exporter_file_list_head' = exporter_file_list_head
                \/ /\ transport_context[e] = NULL
                   /\ exporter_file_list_head' = transport_context'[e]
                   /\ nodes'[exporter_file_list_head'].next
                         = exporter_file_list_head]_vars

\* A send has just failed and been reported on one node while another
\* registered node is open and has never had an error.
C20_Witness ==
    /\ LastSend /\ last_op.result \in {"open_failed", "write_failed"}
    /\ nodes[LastNode].last_error = ioloop_time
    /\ \E n \in Registered :
          /\ n # LastNode
          /\ StreamUsable(nodes[n])
          /\ nodes[n].last_error = 0
          /\ nodes[n].fd \in open_fds

====
